---- MODULE Spec2Model ----
(***************************************************************************)
(* groupcheck: a minimal polkit replacement that authorizes by group       *)
(* membership.  The model follows src/groupcheck.c: the policy file is     *)
(* loaded by main/load_file/parse_line, requests are dispatched by the     *)
(* event loop to the method handlers, and check_allowed computes the       *)
(* verdict from the answers of the OS and of the bus library.              *)
(*                                                                         *)
(* C strings are sequences of one-character strings; the terminating NUL   *)
(* is the position after the last element, and a NUL written in place is   *)
(* the element NUL.  Pointers into a buffer are indices, 0 is NULL.        *)
(***************************************************************************)
EXTENDS Integers, Sequences, FiniteSets, TLC

VARIABLES pc, policy_file, data, exit_status, msg, os, result, history

\* history is not state of the program: it records the calls handled so
\* far, for the properties that compare one call with earlier ones
vars == <<pc, policy_file, data, exit_status, msg, os, result, history>>

(***************************************************************************)
(* Program constants                                                       *)
(***************************************************************************)
MAX_NAME_SIZE == 256
MAX_GROUPS == 10
EINVAL == 22
ENXIO == 6
EBUSY == 16
EXIT_SUCCESS == 0
EXIT_FAILURE == 1

(***************************************************************************)
(* Bounds of the model                                                     *)
(***************************************************************************)
\* number of lines of the policy file
MaxLines == 2

(***************************************************************************)
(* C string helpers                                                        *)
(***************************************************************************)
NUL == ""
QUOTE == "\""
NEWLINE == "\n"

\* *p for a pointer p into the NUL-terminated buffer buf
CharAt(buf, p) == IF p >= 1 /\ p <= Len(buf) THEN buf[p] ELSE NUL

\* the C string starting at p: the characters up to the next NUL
RECURSIVE CStr(_, _)
CStr(buf, p) ==
    IF CharAt(buf, p) = NUL THEN <<>> ELSE <<buf[p]>> \o CStr(buf, p + 1)

\* strchr(p, c): the first position at or after p that holds c, NULL if none
RECURSIVE strchr(_, _, _)
strchr(buf, p, c) ==
    IF CharAt(buf, p) = NUL THEN 0
    ELSE IF buf[p] = c THEN p
    ELSE strchr(buf, p + 1, c)

(***************************************************************************)
(* Policy store: parse_line, load_file                                     *)
(***************************************************************************)
\* first loop of parse_line: the position after the first '=', 0 if the
\* line has none
RECURSIVE ScanEquals(_, _)
ScanEquals(buf, p) ==
    IF CharAt(buf, p) = NUL THEN 0
    ELSE IF buf[p] = "=" THEN p + 1
    ELSE ScanEquals(buf, p + 1)

\* The second loop with the bound tested after the group is counted.
RECURSIVE ScanGroups_offbyone(_, _, _, _)
ScanGroups_offbyone(buf, p, starts, group_begins) ==
    IF CharAt(buf, p) = NUL THEN [r |-> -EINVAL, buf |-> buf, starts |-> starts]
    ELSE IF group_begins THEN
        IF Len(starts) > MAX_GROUPS
        THEN [r |-> -EINVAL, buf |-> buf, starts |-> starts]
        ELSE ScanGroups_offbyone(buf, p, Append(starts, p), FALSE)
    ELSE IF buf[p] = "," THEN
        ScanGroups_offbyone([buf EXCEPT ![p] = NUL], p + 1, starts, TRUE)
    ELSE IF buf[p] = QUOTE THEN
        [r |-> 0, buf |-> [buf EXCEPT ![p] = NUL], starts |-> starts]
    ELSE ScanGroups_offbyone(buf, p + 1, starts, FALSE)

\* second loop of parse_line: starts holds data->groups[0..n_groups-1]
RECURSIVE ScanGroups(_, _, _, _)
ScanGroups(buf, p, starts, group_begins) ==
    IF CharAt(buf, p) = NUL THEN [r |-> -EINVAL, buf |-> buf, starts |-> starts]
    ELSE IF group_begins THEN
        IF Len(starts) >= MAX_GROUPS
        THEN [r |-> -EINVAL, buf |-> buf, starts |-> starts]
        ELSE ScanGroups(buf, p, Append(starts, p), FALSE)
    ELSE IF buf[p] = "," THEN
        ScanGroups([buf EXCEPT ![p] = NUL], p + 1, starts, TRUE)
    ELSE IF buf[p] = QUOTE THEN
        [r |-> 0, buf |-> [buf EXCEPT ![p] = NUL], starts |-> starts]
    ELSE ScanGroups(buf, p + 1, starts, FALSE)

BadLine == [r |-> -EINVAL, id |-> <<>>, n_groups |-> 0, groups |-> <<>>]

\* parse_line on the raw line buf: the line_data it leaves and its result
parse_line(buf) ==
    LET p == ScanEquals(buf, 1) IN
    IF p = 0 THEN BadLine
    ELSE IF CharAt(buf, p) # QUOTE THEN BadLine
    ELSE LET buf1 == [buf EXCEPT ![p - 1] = NUL]
             g == ScanGroups(buf1, p + 1, <<>>, TRUE)
         IN IF g.r < 0 THEN BadLine
            ELSE [r |-> 0,
                  id |-> CStr(g.buf, 1),
                  n_groups |-> Len(g.starts),
                  groups |-> [i \in 1..Len(g.starts) |-> CStr(g.buf, g.starts[i])]]

\* A loader that takes comment lines for rules.
IsKept_comments(buf) == Len(buf) # 0 /\ buf[1] # NEWLINE

\* the lines fgets delivers that load_file keeps (not a comment, not blank)
IsKept(buf) == Len(buf) # 0 /\ buf[1] # "#" /\ buf[1] # NEWLINE

RECURSIVE KeptLines(_)
KeptLines(lines) ==
    IF lines = <<>> THEN <<>>
    ELSE IF IsKept(Head(lines)) THEN <<Head(lines)>> \o KeptLines(Tail(lines))
    ELSE KeptLines(Tail(lines))

NULL_DATA == [isnull |-> TRUE, lines |-> <<>>]

\* A loader that drops a line it cannot parse and keeps the others.
load_file_skipbad(file) ==
    IF ~file.readable THEN NULL_DATA
    ELSE LET kept == KeptLines(file.lines)
             parsed == [i \in 1..Len(kept) |-> parse_line(kept[i])]
         IN [isnull |-> FALSE,
             lines |-> SelectSeq(parsed, LAMBDA l : l.r >= 0)]

\* load_file: the array of parsed lines (the zeroed sentinel is the end of
\* the sequence), or NULL
load_file(file) ==
    IF ~file.readable THEN NULL_DATA
    ELSE LET kept == KeptLines(file.lines)
             parsed == [i \in 1..Len(kept) |-> parse_line(kept[i])]
         IN IF \E i \in 1..Len(kept) : parsed[i].r < 0
            THEN NULL_DATA
            ELSE [isnull |-> FALSE, lines |-> parsed]

(***************************************************************************)
(* Subject decoder: parse_subject                                          *)
(*                                                                         *)
(* The vtable signature "(sa{sv})sa{ss}us" is enforced by the bus library  *)
(* before a handler runs, so a message is a well-formed struct of a kind   *)
(* name and a sequence of (key, variant) entries.  A variant carries its   *)
(* contents signature sig and a value: the number n for "u" and "t", the   *)
(* string called name of strlen len for "s".                               *)
(***************************************************************************)
SUBJECT_KIND_UNKNOWN == "unknown"
SUBJECT_KIND_UNIX_PROCESS == "process"
SUBJECT_KIND_UNIX_SESSION == "session"
SUBJECT_KIND_SYSTEM_BUS_NAME == "bus"

\* struct subject subject = { 0 }
ZeroSubject ==
    [kind |-> SUBJECT_KIND_UNKNOWN, pid |-> 0, start_time |-> 0, str |-> ""]

\* what sd_bus_message_read returns when it has read its items
READ_OK == 1

\* sd_bus_message_read(m, type, &v) inside a variant whose contents are sig
sd_bus_message_read(sig, type) == IF sig = type THEN READ_OK ELSE -ENXIO

\* sd_bus_message_exit_container of a dict entry: refused while the entry
\* has unread members
sd_bus_message_exit_container(unread) == IF unread THEN -EBUSY ELSE 0

\* strlen(value) >= MAX_NAME_SIZE
TooLong_never(len) == FALSE

TooLong(len) == len >= MAX_NAME_SIZE

\* the while loop of parse_subject from entry i on.  inside tells that the
\* read position was left within the containers of the subject.
RECURSIVE DecodeEntries(_, _, _)
DecodeEntries(details, i, subject) ==
    IF i > Len(details) THEN [r |-> 0, subject |-> subject, inside |-> FALSE]
    ELSE
    LET e == details[i]
        fail(r) == [r |-> r, subject |-> subject, inside |-> TRUE]
        next(s, unread) ==
            LET x == sd_bus_message_exit_container(unread) IN
            IF x < 0 THEN fail(x) ELSE DecodeEntries(details, i + 1, s)
    IN
    CASE subject.kind = SUBJECT_KIND_UNIX_PROCESS ->
            IF e.key = "pid" THEN
                LET r == sd_bus_message_read(e.sig, "u") IN
                IF r < 0 THEN fail(r)
                ELSE next([subject EXCEPT !.pid = e.n], FALSE)
            ELSE IF e.key = "start-time" THEN
                LET r == sd_bus_message_read(e.sig, "t") IN
                IF r < 0 THEN fail(r)
                ELSE next([subject EXCEPT !.start_time = e.n], FALSE)
            ELSE next(subject, TRUE)
      [] subject.kind = SUBJECT_KIND_UNIX_SESSION ->
            IF e.key = "session-id" THEN
                LET r == sd_bus_message_read(e.sig, "s") IN
                IF r < 0 THEN fail(r)
                ELSE IF TooLong(e.len) THEN fail(r)
                ELSE next([subject EXCEPT !.str = e.name], FALSE)
            ELSE next(subject, TRUE)
      [] subject.kind = SUBJECT_KIND_SYSTEM_BUS_NAME ->
            IF e.key = "name" THEN
                LET r == sd_bus_message_read(e.sig, "s") IN
                IF r < 0 THEN fail(r)
                ELSE IF TooLong(e.len) THEN fail(-EINVAL)
                ELSE next([subject EXCEPT !.str = e.name], FALSE)
            ELSE next(subject, TRUE)
      [] OTHER -> fail(-EINVAL)

parse_subject(m) ==
    LET kind ==
            IF m.subject_kind = "unix-process" THEN SUBJECT_KIND_UNIX_PROCESS
            ELSE IF m.subject_kind = "unix-session" THEN SUBJECT_KIND_UNIX_SESSION
            ELSE IF m.subject_kind = "system-bus-name"
                 THEN SUBJECT_KIND_SYSTEM_BUS_NAME
            ELSE SUBJECT_KIND_UNKNOWN
    IN IF kind = SUBJECT_KIND_UNKNOWN
       THEN [r |-> -EINVAL, subject |-> ZeroSubject, inside |-> TRUE]
       ELSE DecodeEntries(m.details, 1, [ZeroSubject EXCEPT !.kind = kind])

(***************************************************************************)
(* Credential resolver: verify_start_time                                  *)
(***************************************************************************)
IsDigit(c) == c \in {"0", "1", "2", "3", "4", "5", "6", "7", "8", "9"}

DigitVal(c) ==
    CASE c = "0" -> 0 [] c = "1" -> 1 [] c = "2" -> 2 [] c = "3" -> 3
      [] c = "4" -> 4 [] c = "5" -> 5 [] c = "6" -> 6 [] c = "7" -> 7
      [] c = "8" -> 8 [] c = "9" -> 9

IsSpace(c) == c \in {" ", NEWLINE, "\t"}

RECURSIVE SkipSpace(_, _)
SkipSpace(buf, p) == IF IsSpace(CharAt(buf, p)) THEN SkipSpace(buf, p + 1) ELSE p

RECURSIVE ScanDigits(_, _, _)
ScanDigits(buf, p, acc) ==
    IF IsDigit(CharAt(buf, p))
    THEN ScanDigits(buf, p + 1, acc * 10 + DigitVal(buf[p]))
    ELSE [val |-> acc, endp |-> p]

\* strtoul(p, &endp, 10): endp is the position after the number, or p
\* itself when no digits were found; it is never NULL.  The numbers of the
\* status records are far below ULONG_MAX, so the conversion never wraps.
strtoul(buf, p) ==
    LET q == SkipSpace(buf, p)
        neg == CharAt(buf, q) = "-"
        q2 == IF CharAt(buf, q) \in {"+", "-"} THEN q + 1 ELSE q
        d == ScanDigits(buf, q2, 0)
    IN IF d.endp = q2 THEN [val |-> 0, endp |-> p]
       ELSE [val |-> IF neg THEN -d.val ELSE d.val,
             endp |-> d.endp]

\* the for loop of verify_start_time: i calls of p = strchr(p, ' '); a
\* strchr that finds nothing leaves p NULL
RECURSIVE SkipFields(_, _, _)
SkipFields(buf, p, i) ==
    IF i = 0 \/ p = 0 THEN p ELSE SkipFields(buf, strchr(buf, p, " "), i - 1)

NFIELDS == 20

\* A verify_start_time that steps over the 20 fields, reads the 22nd and
\* accepts the record without comparing it with the request.
verify_start_time_nocompare(subject, stat) ==
    IF ~stat.open THEN [r |-> -EINVAL, f_open |-> FALSE, segv |-> FALSE]
    ELSE IF ~stat.read THEN [r |-> -EINVAL, f_open |-> TRUE, segv |-> FALSE]
    ELSE [r |-> 0, f_open |-> TRUE, segv |-> FALSE]

\* verify_start_time: stat is what the OS has at /proc/<pid>/stat.  f_open
\* tells that the FILE was opened.  The code dereferences the result of
\* strchr unchecked: segv marks that dereference of NULL, after which the
\* process is killed.  A record of the kernel always holds "(comm) ".
verify_start_time(subject, stat) ==
    IF ~stat.open THEN [r |-> -EINVAL, f_open |-> FALSE, segv |-> FALSE]
    ELSE IF ~stat.read THEN [r |-> -EINVAL, f_open |-> TRUE, segv |-> FALSE]
    ELSE
    LET p1 == strchr(stat.line, 1, ")")
        p2 == SkipFields(stat.line, p1, NFIELDS)
        n == strtoul(stat.line, p2)
    IN IF p1 = 0 \/ p2 = 0 THEN [r |-> -EINVAL, f_open |-> TRUE, segv |-> TRUE]
       ELSE IF CharAt(stat.line, p2) = NUL THEN [r |-> -EINVAL, f_open |-> TRUE, segv |-> FALSE]
       ELSE IF n.endp # 0 THEN [r |-> -EINVAL, f_open |-> TRUE, segv |-> FALSE]
       ELSE IF n.val # subject.start_time THEN [r |-> -EINVAL, f_open |-> TRUE, segv |-> FALSE]
       ELSE [r |-> 0, f_open |-> TRUE, segv |-> FALSE]

(***************************************************************************)
(* Authorization evaluator: check_allowed                                  *)
(*                                                                         *)
(* os holds what the OS and the bus library answer during one request:     *)
(* fail names the first library call that returns an error ("none" when    *)
(* all succeed), stat is the process status record, ruid, euid,            *)
(* primary_gid and gids are the credentials, grdb is the group database.   *)
(***************************************************************************)
adm == <<"a", "d", "m">>
wheel == <<"w", "h", "e", "e", "l">>
nogrp == <<"n", "o", "g", "r", "p">>

\* the ids of the groups of the OS
GID == [adm |-> 4, wheel |-> 10, users |-> 100]

\* getgrnam(name) on the group database grdb
getgrnam(grdb, name) ==
    IF name = adm /\ grdb # "noadm" THEN [found |-> TRUE, gr_gid |-> GID.adm]
    ELSE IF name = wheel THEN [found |-> TRUE, gr_gid |-> GID.wheel]
    ELSE [found |-> FALSE, gr_gid |-> 0]

\* A lookup that falls back to the first rule when no id matches.
RECURSIVE FindLine_default(_, _, _)
FindLine_default(lines, action_id, i) ==
    IF i > Len(lines) THEN (IF Len(lines) > 0 THEN 1 ELSE 0)
    ELSE IF lines[i].id = action_id THEN i
    ELSE FindLine_default(lines, action_id, i + 1)

\* the scan of the policy from line i on: the first line whose id is
\* action_id, 0 when the sentinel is reached
RECURSIVE FindLine(_, _, _)
FindLine(lines, action_id, i) ==
    IF i > Len(lines) THEN 0
    ELSE IF lines[i].id = action_id THEN i
    ELSE FindLine(lines, action_id, i + 1)

\* the result of the library call named call
sd_r(o, call) == IF o.fail = call THEN -ENXIO ELSE 0

CredsError_ignored(r) == FALSE

\* r < 0 after a call of the credentials library: goto end
CredsError(r) == r < 0

UidMismatch_ignored(euid, ruid) == FALSE

\* euid != ruid: goto end
UidMismatch(euid, ruid) == euid # ruid

IsPrimary_never(gid, primary_gid) == FALSE

\* gids[j] == primary_gid: the gid is left out of the check
IsPrimary(gid, primary_gid) == gid = primary_gid

GidMatches_any(gid, gr_gid) == TRUE

\* gids[j] == grp->gr_gid
GidMatches(gid, gr_gid) == gid = gr_gid

\* the inner loop over the supplementary gids from j on
RECURSIVE MatchGids(_, _, _, _)
MatchGids(gids, j, primary_gid, gr_gid) ==
    IF j > Len(gids) THEN FALSE
    ELSE IF IsPrimary(gids[j], primary_gid)
         THEN MatchGids(gids, j + 1, primary_gid, gr_gid)
    ELSE IF GidMatches(gids[j], gr_gid) THEN TRUE
    ELSE MatchGids(gids, j + 1, primary_gid, gr_gid)

\* An outer loop that gives up at the first group the database lacks.
RECURSIVE MatchGroups_abort(_, _, _, _)
MatchGroups_abort(line, i, o, primary_gid) ==
    IF i > line.n_groups THEN FALSE
    ELSE LET grp == getgrnam(o.grdb, line.groups[i]) IN
         IF ~grp.found THEN FALSE
         ELSE IF MatchGids(o.gids, 1, primary_gid, grp.gr_gid) THEN TRUE
         ELSE MatchGroups_abort(line, i + 1, o, primary_gid)

\* the outer loop over the groups of the rule from i on
RECURSIVE MatchGroups(_, _, _, _)
MatchGroups(line, i, o, primary_gid) ==
    IF i > line.n_groups THEN FALSE
    ELSE LET grp == getgrnam(o.grdb, line.groups[i]) IN
         IF ~grp.found THEN MatchGroups(line, i + 1, o, primary_gid)
         ELSE IF MatchGids(o.gids, 1, primary_gid, grp.gr_gid) THEN TRUE
         ELSE MatchGroups(line, i + 1, o, primary_gid)

\* the credential fields a mask can ask for
CredFields == {"pid", "uid", "euid", "gid", "supplementary_gids", "augment"}

\* uint64_t mask = SD_BUS_CREDS_SUPPLEMENTARY_GIDS | SD_BUS_CREDS_AUGMENT
\*               | SD_BUS_CREDS_PID | SD_BUS_CREDS_GID
InitialMask == {"supplementary_gids", "augment", "pid", "gid"}

\* mask = _SD_BUS_CREDS_ALL
SD_BUS_CREDS_ALL == CredFields

\* What the switch leaves behind.  creds tells that a credentials object
\* was obtained, mask is the mask it was asked with, ops are the calls made
\* on it in order ("new", then one "get_<field>" per getter called).
NoCreds ==
    [resolved |-> FALSE, f_open |-> FALSE, segv |-> FALSE,
     creds |-> FALSE, mask |-> InitialMask, ops |-> <<>>]

\* the calls both supported kinds make once the creds object exists
ReadCreds(o, f_open, mask) ==
    LET got == [NoCreds EXCEPT !.f_open = f_open, !.creds = TRUE, !.mask = mask]
        uid == <<"new", "get_uid">>
        euid == uid \o <<"get_euid">>
        gids == euid \o <<"get_supplementary_gids">>
        gid == gids \o <<"get_gid">>
    IN
    IF CredsError(sd_r(o, "uid")) THEN [got EXCEPT !.ops = uid]
    ELSE IF CredsError(sd_r(o, "euid")) THEN [got EXCEPT !.ops = euid]
    ELSE IF UidMismatch(o.euid, o.ruid) THEN [got EXCEPT !.ops = euid]
    ELSE IF CredsError(sd_r(o, "gids")) THEN [got EXCEPT !.ops = gids]
    ELSE IF CredsError(sd_r(o, "gid")) THEN [got EXCEPT !.ops = gid]
    ELSE [got EXCEPT !.resolved = TRUE, !.ops = gid]

\* A switch whose session case falls into the bus-peer case.
Resolve_session_as_peer(subject, o) ==
    CASE subject.kind = SUBJECT_KIND_UNIX_PROCESS ->
            IF CredsError(sd_r(o, "creds")) THEN [NoCreds EXCEPT !.mask = SD_BUS_CREDS_ALL]
            ELSE LET v == verify_start_time(subject, o.stat)
                     got == [NoCreds EXCEPT !.creds = TRUE, !.mask = SD_BUS_CREDS_ALL,
                                            !.ops = <<"new">>, !.f_open = v.f_open]
                 IN
                 IF v.segv THEN [got EXCEPT !.segv = TRUE]
                 ELSE IF v.r < 0 THEN got
                 ELSE ReadCreds(o, v.f_open, SD_BUS_CREDS_ALL)
      [] subject.kind \in {SUBJECT_KIND_SYSTEM_BUS_NAME, SUBJECT_KIND_UNIX_SESSION} ->
            IF CredsError(sd_r(o, "creds")) THEN NoCreds
            ELSE ReadCreds(o, FALSE, InitialMask)
      [] OTHER -> NoCreds

\* the switch on subject->kind: resolved tells that gids and primary_gid
\* were obtained
Resolve(subject, o) ==
    CASE subject.kind = SUBJECT_KIND_UNIX_PROCESS ->
            IF CredsError(sd_r(o, "creds")) THEN [NoCreds EXCEPT !.mask = SD_BUS_CREDS_ALL]
            ELSE LET v == verify_start_time(subject, o.stat)
                     got == [NoCreds EXCEPT !.creds = TRUE, !.mask = SD_BUS_CREDS_ALL,
                                            !.ops = <<"new">>, !.f_open = v.f_open]
                 IN
                 IF v.segv THEN [got EXCEPT !.segv = TRUE]
                 ELSE IF v.r < 0 THEN got
                 ELSE ReadCreds(o, v.f_open, SD_BUS_CREDS_ALL)
      [] subject.kind = SUBJECT_KIND_SYSTEM_BUS_NAME ->
            IF CredsError(sd_r(o, "creds")) THEN NoCreds
            ELSE ReadCreds(o, FALSE, InitialMask)
      [] OTHER -> NoCreds

\* sd_bus_creds_unref(creds): releases the object; on NULL it does nothing
sd_bus_creds_unref(creds) == IF creds THEN <<"unref">> ELSE <<>>

\* An exit where the match branch releases the object and then runs into
\* the release at the end label as well.
ReleaseOps_fallthrough(creds, matched) ==
    IF matched THEN sd_bus_creds_unref(creds) \o sd_bus_creds_unref(creds)
    ELSE sd_bus_creds_unref(creds)

\* the way out of check_allowed after the switch: the match branch
\* releases the object and returns true, every other path goes through
\* the release at the end label and returns false
ReleaseOps(creds, matched) ==
    IF matched THEN sd_bus_creds_unref(creds)
    ELSE sd_bus_creds_unref(creds)

\* the calls on the credentials object during the whole of check_allowed:
\* those of the switch, the match loop reading gids when they were
\* obtained, and the release
CredsOps(c, matched) ==
    c.ops \o (IF c.resolved THEN <<"read_gids">> ELSE <<>>)
          \o ReleaseOps(c.creds, matched)

\* An evaluator that keeps the credentials of the call before in a
\* process-wide cache and answers from them.
check_allowed_cached(lines, subject, action_id, o) ==
    LET i == FindLine(lines, action_id, 1)
        c == Resolve(subject, o)
        cached == IF history # <<>> /\ history[Len(history)].result.resolved
                  THEN history[Len(history)].os ELSE o
    IN IF i = 0
       THEN [allowed |-> FALSE, found |-> FALSE, resolved |-> FALSE,
             f_open |-> FALSE, segv |-> FALSE,
             creds |-> FALSE, mask |-> InitialMask, ops |-> <<>>]
       ELSE LET matched == c.resolved /\ MatchGroups(lines[i], 1, cached, cached.primary_gid)
            IN [allowed |-> matched,
                found |-> TRUE, resolved |-> c.resolved,
                f_open |-> c.f_open, segv |-> c.segv,
                creds |-> c.creds, mask |-> c.mask, ops |-> CredsOps(c, matched)]

\* check_allowed(bus, data, subject, action_id)
check_allowed(lines, subject, action_id, o) ==
    LET i == FindLine(lines, action_id, 1) IN
    IF i = 0 THEN [allowed |-> FALSE, found |-> FALSE, resolved |-> FALSE,
                   f_open |-> FALSE, segv |-> FALSE,
                   creds |-> FALSE, mask |-> InitialMask, ops |-> <<>>]
    ELSE LET c == Resolve(subject, o)
             matched == c.resolved /\ MatchGroups(lines[i], 1, o, o.primary_gid)
         IN [allowed |-> matched,
             found |-> TRUE, resolved |-> c.resolved,
             f_open |-> c.f_open, segv |-> c.segv,
             creds |-> c.creds, mask |-> c.mask, ops |-> CredsOps(c, matched)]

(***************************************************************************)
(* The environment: policy files, messages, answers of the OS              *)
(***************************************************************************)
reboot == <<"r", "e", "b", "o", "o", "t">>
halt == <<"h", "a", "l", "t">>
suspend == <<"s", "u", "s", "p", "e", "n", "d">>

RECURSIVE Join(_)
Join(groups) ==
    IF Len(groups) = 0 THEN <<>>
    ELSE IF Len(groups) = 1 THEN groups[1]
    ELSE groups[1] \o <<",">> \o Join(Tail(groups))

\* the line id="g1,...,gN" as fgets delivers it
MkLine(id, groups) == id \o <<"=", QUOTE>> \o Join(groups) \o <<QUOTE, NEWLINE>>

NGroups(n) == [i \in 1..n |-> IF i = n THEN wheel ELSE <<"g">>]

GoodLines ==
    { MkLine(reboot, <<adm, wheel>>),
      MkLine(reboot, <<adm>>),
      MkLine(halt, <<nogrp, wheel>>),
      MkLine(halt, NGroups(MAX_GROUPS)) }

SkippedLines == { <<"#", " ", "x", NEWLINE>>, <<NEWLINE>> }

BadLines ==
    { reboot \o <<NEWLINE>>,
      reboot \o <<"=">> \o adm \o <<NEWLINE>>,
      reboot \o <<"=", QUOTE>> \o adm \o <<NEWLINE>>,
      MkLine(halt, NGroups(MAX_GROUPS + 1)) }

LineSet == GoodLines \cup SkippedLines \cup BadLines

RECURSIVE SeqsUpTo(_, _)
SeqsUpTo(S, n) ==
    IF n = 0 THEN { <<>> }
    ELSE LET shorter == SeqsUpTo(S, n - 1) IN
         shorter \cup { Append(q, x) : q \in { t \in shorter : Len(t) = n - 1 }, x \in S }

PolicyFiles ==
    { [found |-> FALSE, readable |-> FALSE, lines |-> <<>>],
      [found |-> TRUE, readable |-> FALSE, lines |-> <<>>] }
    \cup { [found |-> TRUE, readable |-> TRUE, lines |-> l] :
             l \in SeqsUpTo(LineSet, MaxLines) }

\* variant values
UVal(key, n) == [key |-> key, sig |-> "u", n |-> n, name |-> "", len |-> 0]
TVal(key, n) == [key |-> key, sig |-> "t", n |-> n, name |-> "", len |-> 0]
SVal(key, name, len) == [key |-> key, sig |-> "s", n |-> 0, name |-> name, len |-> len]

StartTimes == {1, 2}
Pids == {7}

ProcessSubjects ==
    { [subject_kind |-> "unix-process",
       details |-> <<UVal("pid", pid), TVal("start-time", st)>>] :
        pid \in Pids, st \in StartTimes }

BusSubjects ==
    { [subject_kind |-> "system-bus-name", details |-> <<SVal("name", ":1.5", 4)>>] }

SessionSubjects ==
    { [subject_kind |-> "unix-session", details |-> <<SVal("session-id", "c1", 2)>>] }

\* payloads at and over the limits of the decoder
EdgeSubjects ==
    { [subject_kind |-> "unix-user", details |-> <<UVal("uid", 0)>>],
      [subject_kind |-> "unix-session",
       details |-> <<SVal("session-id", "long", MAX_NAME_SIZE)>>],
      [subject_kind |-> "unix-session",
       details |-> <<SVal("session-id", "max", MAX_NAME_SIZE - 1)>>],
      [subject_kind |-> "system-bus-name",
       details |-> <<SVal("name", "long", MAX_NAME_SIZE)>>],
      [subject_kind |-> "system-bus-name",
       details |-> <<SVal("name", "max", MAX_NAME_SIZE - 1)>>],
      [subject_kind |-> "unix-process",
       details |-> <<SVal("pid", "7", 1), TVal("start-time", 1)>>],
      [subject_kind |-> "unix-process",
       details |-> <<UVal("pid", 7), UVal("uid", 0), TVal("start-time", 1)>>] }

ActionIds == {reboot, halt, suspend}

CheckMsg(subj, action_id) ==
    [method |-> "CheckAuthorization", subject_kind |-> subj.subject_kind,
     details |-> subj.details, action_id |-> action_id,
     cancellation_id |-> ""]

NoMsg ==
    [method |-> "none", subject_kind |-> "", details |-> <<>>,
     action_id |-> <<>>, cancellation_id |-> ""]

CancellationIds == {"", "c1"}

CancelMsgs ==
    { [NoMsg EXCEPT !.method = "CancelCheckAuthorization", !.cancellation_id = c] :
        c \in CancellationIds }

OtherMsgs ==
    CancelMsgs \cup { [NoMsg EXCEPT !.method = "EnumerateActions"] }

RECURSIVE Repeat(_, _)
Repeat(q, n) == IF n = 0 THEN <<>> ELSE q \o Repeat(q, n - 1)

DigitChar(d) ==
    CASE d = 0 -> "0" [] d = 1 -> "1" [] d = 2 -> "2" [] d = 3 -> "3"
      [] d = 4 -> "4" [] d = 5 -> "5" [] d = 6 -> "6" [] d = 7 -> "7"
      [] d = 8 -> "8" [] d = 9 -> "9"

RECURSIVE Decimal(_)
Decimal(n) == IF n < 10 THEN <<DigitChar(n)>> ELSE Decimal(n \div 10) \o <<DigitChar(n % 10)>>

\* /proc/<pid>/stat of a process started at jiffy st: "pid (comm) S" and
\* 18 more fields before the start time in field 22
StatLine(pid, comm, st) ==
    Decimal(pid) \o <<" ", "(">> \o comm \o <<")", " ", "S", " ">>
    \o Repeat(<<"0", " ">>, 18) \o Decimal(st) \o <<" ", "0", NEWLINE>>

Comms == { <<"s", "h">>, <<"a", ")", " ", "5">> }

NoStat == [open |-> FALSE, read |-> FALSE, line |-> <<>>]

StatRecords ==
    { [open |-> TRUE, read |-> TRUE, line |-> StatLine(pid, c, st)] :
        pid \in Pids, c \in Comms, st \in StartTimes }

StatFailures == { NoStat, [open |-> TRUE, read |-> FALSE, line |-> <<>>] }

\* the OS start time a status record was written from
OsStartTime(stat) ==
    CHOOSE st \in StartTimes :
        \E pid \in Pids, c \in Comms : stat.line = StatLine(pid, c, st)

GidLists ==
    { <<>>, <<GID.wheel>>, <<GID.users>>, <<GID.users, GID.wheel>>, <<GID.adm, GID.wheel>> }

\* the answers under which nothing fails and the subject is in wheel
BestOs(stat) ==
    [fail |-> "none", stat |-> stat, ruid |-> 1000, euid |-> 1000,
     gids |-> <<GID.wheel>>, primary_gid |-> GID.users, grdb |-> "full"]

CredCalls == {"creds", "uid", "euid", "gids", "gid", "send"}

CredAnswers(stat) ==
    { [fail |-> "none", stat |-> stat, ruid |-> 1000, euid |-> eu,
       gids |-> g, primary_gid |-> pg, grdb |-> db] :
        eu \in {1000, 0}, g \in GidLists, pg \in {GID.wheel, GID.users},
        db \in {"full", "noadm"} }
    \cup { [BestOs(stat) EXCEPT !.fail = f] : f \in CredCalls }

\* the answers the environment can give while m is handled
OsFor(m) ==
    IF m \in { CheckMsg(s, a) : s \in ProcessSubjects, a \in ActionIds }
    THEN UNION { CredAnswers(st) : st \in { x \in StatRecords : x.line[4] = "s" } }
         \cup { BestOs(st) : st \in StatRecords \cup StatFailures }
    ELSE IF m \in { CheckMsg(s, a) : s \in BusSubjects, a \in ActionIds }
    THEN CredAnswers(NoStat)
    ELSE { BestOs(NoStat), [BestOs(NoStat) EXCEPT !.fail = "send"] }

Messages ==
    { CheckMsg(s, a) : s \in ProcessSubjects \cup BusSubjects \cup SessionSubjects,
                       a \in ActionIds }
    \cup { CheckMsg(s, reboot) : s \in EdgeSubjects }
    \cup OtherMsgs

(***************************************************************************)
(* The daemon: main, the event loop and the method handlers                *)
(***************************************************************************)
\* what a handler did with the message: r is its return value, decoded
\* tells that parse_subject returned r >= 0 and subject is what it filled
\* in, evaluated that check_allowed was called, sent that a reply went out,
\* f_open that the call left a status record open, mask and creds_ops the
\* mask check_allowed asked credentials with and its calls on them
NoResult ==
    [method |-> "none", r |-> 0, decoded |-> FALSE, evaluated |-> FALSE,
     allowed |-> FALSE, found |-> FALSE, resolved |-> FALSE,
     sent |-> FALSE, is_authorized |-> FALSE,
     is_challenge |-> FALSE, details |-> {}, actions |-> <<>>,
     subject |-> ZeroSubject,
     f_open |-> FALSE, mask |-> {}, creds_ops |-> <<>>]

Init ==
    /\ pc = "start"
    /\ policy_file = [found |-> FALSE, readable |-> FALSE, lines |-> <<>>]
    /\ data = NULL_DATA
    /\ exit_status = EXIT_SUCCESS
    /\ msg = NoMsg
    /\ os = BestOs(NoStat)
    /\ result = NoResult
    /\ history = <<>>

\* main up to sd_event_loop: find_policy_file, load_file and the set-up of
\* the event source and of the bus object (setup_ok: all of it succeeded)
main ==
    /\ pc = "start"
    /\ \E file \in PolicyFiles, setup_ok \in BOOLEAN :
        LET loaded == IF file.found THEN load_file(file) ELSE NULL_DATA IN
        /\ policy_file' = file
        /\ data' = loaded
        /\ IF loaded.isnull \/ ~setup_ok
           THEN pc' = "aborted" /\ exit_status' = EXIT_FAILURE
           ELSE pc' = "loop" /\ exit_status' = exit_status
    /\ UNCHANGED <<msg, os, result, history>>

\* sd_event_loop hands the next method call to its handler
dispatch ==
    /\ pc = "loop"
    /\ \E m \in Messages : \E o \in OsFor(m) :
        /\ msg' = m
        /\ os' = o
    /\ pc' = "dispatch"
    /\ UNCHANGED <<policy_file, data, exit_status, result, history>>

\* the handler has returned: the message is released and sd_event_loop
\* waits for the next one
event_loop_wait ==
    /\ pc = "handled"
    /\ pc' = "loop"
    /\ msg' = NoMsg
    /\ os' = BestOs(NoStat)
    /\ result' = NoResult
    /\ UNCHANGED <<policy_file, data, exit_status, history>>

\* sd_event_loop returns; main releases everything and exits
main_exit ==
    /\ pc = "loop"
    /\ \E r_ok \in BOOLEAN :
        exit_status' = IF r_ok THEN EXIT_SUCCESS ELSE EXIT_FAILURE
    /\ pc' = "exited"
    /\ UNCHANGED <<policy_file, data, msg, os, result, history>>

\* the reply (allowed, false, {}) is built and sent unless the library fails
method_check_authorization ==
    /\ pc = "dispatch"
    /\ msg.method = "CheckAuthorization"
    /\ LET ps == parse_subject(msg)
           base == [NoResult EXCEPT !.method = "CheckAuthorization"]
       IN
       IF ps.r < 0
       THEN result' = [base EXCEPT !.r = ps.r] /\ pc' = "handled"
       ELSE IF ps.inside
       THEN /\ result' = [base EXCEPT !.r = -ENXIO, !.decoded = TRUE,
                                    !.subject = ps.subject]
            /\ pc' = "handled"
       ELSE LET ca == check_allowed(data.lines, ps.subject, msg.action_id, os)
                send == sd_r(os, "send")
            IN IF ca.segv
               THEN /\ result' = [base EXCEPT !.decoded = TRUE,
                                            !.subject = ps.subject]
                    /\ pc' = "killed"
               ELSE /\ result' = [base EXCEPT !.r = send, !.decoded = TRUE,
                                    !.subject = ps.subject,
                                    !.evaluated = TRUE, !.allowed = ca.allowed,
                                    !.found = ca.found, !.resolved = ca.resolved,
                                    !.sent = (send >= 0),
                                    !.is_authorized = (send >= 0 /\ ca.allowed),
                                    !.f_open = ca.f_open, !.mask = ca.mask,
                                    !.creds_ops = ca.ops]
                    /\ pc' = "handled"
    /\ UNCHANGED <<policy_file, data, exit_status, msg, os, history>>

\* A cancellation that drops the rules.
method_cancel_check_authorization_clearing ==
    /\ pc = "dispatch"
    /\ msg.method = "CancelCheckAuthorization"
    /\ LET send == sd_r(os, "send") IN
       result' = [NoResult EXCEPT !.method = "CancelCheckAuthorization",
                                  !.r = send, !.sent = (send >= 0)]
    /\ data' = [data EXCEPT !.lines = <<>>]
    /\ pc' = "handled"
    /\ UNCHANGED <<policy_file, exit_status, msg, os, history>>

\* return sd_bus_reply_method_return(m, "")
method_cancel_check_authorization ==
    /\ pc = "dispatch"
    /\ msg.method = "CancelCheckAuthorization"
    /\ LET send == sd_r(os, "send") IN
       result' = [NoResult EXCEPT !.method = "CancelCheckAuthorization",
                                  !.r = send, !.sent = (send >= 0)]
    /\ pc' = "handled"
    /\ UNCHANGED <<policy_file, data, exit_status, msg, os, history>>

\* An enumeration that walks the store with the stored pointer itself and
\* leaves it at the sentinel.
method_enumerate_actions_consuming ==
    /\ pc = "dispatch"
    /\ msg.method = "EnumerateActions"
    /\ LET send == sd_r(os, "send") IN
       result' = [NoResult EXCEPT !.method = "EnumerateActions",
                                  !.r = send, !.sent = (send >= 0),
                                  !.actions = IF send >= 0
                                              THEN [i \in 1..Len(data.lines) |-> data.lines[i].id]
                                              ELSE <<>>]
    /\ data' = [data EXCEPT !.lines = <<>>]
    /\ pc' = "handled"
    /\ UNCHANGED <<policy_file, exit_status, msg, os, history>>

method_enumerate_actions ==
    /\ pc = "dispatch"
    /\ msg.method = "EnumerateActions"
    /\ LET send == sd_r(os, "send") IN
       result' = [NoResult EXCEPT !.method = "EnumerateActions",
                                  !.r = send, !.sent = (send >= 0),
                                  !.actions = IF send >= 0
                                              THEN [i \in 1..Len(data.lines) |-> data.lines[i].id]
                                              ELSE <<>>]
    /\ pc' = "handled"
    /\ UNCHANGED <<policy_file, data, exit_status, msg, os, history>>

Next ==
    \/ main
    \/ dispatch
    \/ event_loop_wait
    \/ main_exit
    \/ method_check_authorization
    \/ method_cancel_check_authorization
    \/ method_enumerate_actions

Spec == Init /\ [][Next]_vars

(***************************************************************************)
(* The daemon with the handled calls recorded.  The handlers are the same; *)
(* the policy files and the requests are a selection, and the step back to *)
(* the event loop appends the call to history.                             *)
(***************************************************************************)
\* number of calls recorded
MaxHistory == 2

RecordedFiles ==
    { [found |-> TRUE, readable |-> TRUE, lines |-> l] :
        l \in { <<MkLine(reboot, <<adm, wheel>>)>>,
                <<MkLine(halt, <<nogrp, wheel>>), MkLine(reboot, <<adm>>)>> } }

\* requests with the answers of the OS while they are handled
RecordedRequests ==
    { [msg |-> CheckMsg(s, reboot), os |-> o] :
        s \in BusSubjects,
        o \in { BestOs(NoStat),
                [BestOs(NoStat) EXCEPT !.gids = <<GID.users>>],
                [BestOs(NoStat) EXCEPT !.fail = "gids"] } }
    \cup { [msg |-> CheckMsg(s, halt), os |-> BestOs(NoStat)] : s \in BusSubjects }
    \cup { [msg |-> CheckMsg(s, reboot), os |-> BestOs(NoStat)] : s \in SessionSubjects }
    \cup { [msg |-> CheckMsg(s, reboot),
            os |-> BestOs([open |-> TRUE, read |-> TRUE,
                           line |-> StatLine(s.details[1].n, <<"s", "h">>, s.details[2].n)])] :
             s \in { x \in ProcessSubjects : x.details[2].n = 1 } }
    \cup { [msg |-> m, os |-> BestOs(NoStat)] : m \in OtherMsgs }
    \cup { [msg |-> m, os |-> [BestOs(NoStat) EXCEPT !.fail = "send"]] :
             m \in { x \in CancelMsgs : x.cancellation_id = "" } }

main_recorded ==
    /\ pc = "start"
    /\ \E file \in RecordedFiles :
        LET loaded == load_file(file) IN
        /\ policy_file' = file
        /\ data' = loaded
        /\ IF loaded.isnull
           THEN pc' = "aborted" /\ exit_status' = EXIT_FAILURE
           ELSE pc' = "loop" /\ exit_status' = exit_status
    /\ UNCHANGED <<msg, os, result, history>>

dispatch_recorded ==
    /\ pc = "loop"
    /\ \E q \in RecordedRequests :
        /\ msg' = q.msg
        /\ os' = q.os
    /\ pc' = "dispatch"
    /\ UNCHANGED <<policy_file, data, exit_status, result, history>>

\* as event_loop_wait, with the call appended to history while there is room
event_loop_wait_recorded ==
    /\ pc = "handled"
    /\ pc' = "loop"
    /\ msg' = NoMsg
    /\ os' = BestOs(NoStat)
    /\ result' = NoResult
    /\ history' = IF Len(history) < MaxHistory
                  THEN Append(history, [msg |-> msg, os |-> os, result |-> result])
                  ELSE history
    /\ UNCHANGED <<policy_file, data, exit_status>>

NextRecorded ==
    \/ main_recorded
    \/ dispatch_recorded
    \/ event_loop_wait_recorded
    \/ method_check_authorization
    \/ method_cancel_check_authorization
    \/ method_enumerate_actions

SpecRecorded == Init /\ [][NextRecorded]_vars

(***************************************************************************)
(* The start of the daemon on policy files that exercise the parser: every *)
(* line over a small alphabet up to MaxLineLen characters, and files of    *)
(* rule lines, comments and blank lines.                                   *)
(***************************************************************************)
\* number of characters of a generated line, the newline not counted
MaxLineLen == 4

\* number of lines of a file of rule lines, comments and blank lines
MaxParseLines == 3

ParseAlphabet == {"a", "=", QUOTE, ",", " ", "#"}

GeneratedLines == { l \o <<NEWLINE>> : l \in SeqsUpTo(ParseAlphabet, MaxLineLen) }

ParseIds == { <<"a">>, <<"b">> }

ParseGroupLists ==
    { <<<<"x">>>>, <<<<"y", "z">>, <<"x">>>>, <<<<"x">>, <<"y", "z">>>>,
      <<<<>>>>, NGroups(MAX_GROUPS - 1), NGroups(MAX_GROUPS) }

\* a rule as the author of the policy file means it
ParseRules == { [id |-> id, groups |-> gs] : id \in ParseIds, gs \in ParseGroupLists }

Render(rule) == MkLine(rule.id, rule.groups)

RuleLines == { Render(rule) : rule \in ParseRules }

WhitespaceLines ==
    { <<"a", " ", "b">> \o <<"=", QUOTE>> \o <<"x">> \o <<QUOTE, NEWLINE>>,
      MkLine(<<"a">>, << <<"x">>, <<" ", "y">> >>),
      MkLine(<<"a">>, << <<"x", "\t", "y">> >>),
      MkLine(<<"a", "\t">>, << <<"x">> >>) }

ParseFiles ==
    { [found |-> TRUE, readable |-> TRUE, lines |-> <<l>>] :
        l \in GeneratedLines \cup WhitespaceLines
              \cup { MkLine(<<"a">>, NGroups(MAX_GROUPS + 1)) } }
    \cup { [found |-> TRUE, readable |-> TRUE, lines |-> ls] :
             ls \in SeqsUpTo(RuleLines \cup SkippedLines, MaxParseLines) }

main_parse ==
    /\ pc = "start"
    /\ \E file \in ParseFiles :
        LET loaded == load_file(file) IN
        /\ policy_file' = file
        /\ data' = loaded
        /\ IF loaded.isnull
           THEN pc' = "aborted" /\ exit_status' = EXIT_FAILURE
           ELSE pc' = "loop" /\ exit_status' = exit_status
    /\ UNCHANGED <<msg, os, result, history>>

NextParse == main_parse

SpecParse == Init /\ [][NextParse]_vars

(***************************************************************************)
(* Vocabulary of the properties                                            *)
(***************************************************************************)
\* a CheckAuthorization handler has returned
Answered == pc = "handled" /\ result.method = "CheckAuthorization"

\* check_allowed was called and returned result.allowed
Decided == Answered /\ result.evaluated

\* the rules of the store for action id a, in store order
RulesFor(a) == SelectSeq(data.lines, LAMBDA l : l.id = a)

HasRule(a) == RulesFor(a) # <<>>

\* the gids the groups of rule l resolve to in the group database
ConfiguredGids(l, grdb) ==
    { getgrnam(grdb, l.groups[i]).gr_gid :
        i \in { k \in 1..l.n_groups : getgrnam(grdb, l.groups[k]).found } }

SupplementaryGids == { os.gids[j] : j \in 1..Len(os.gids) }

IsProcess == msg.subject_kind = "unix-process"
IsBusPeer == msg.subject_kind = "system-bus-name"
IsSession == msg.subject_kind = "unix-session"

\* the value the payload gives for key (0 when it gives none)
Claimed(key) ==
    LET d == SelectSeq(msg.details, LAMBDA e : e.key = key)
    IN IF d = <<>> THEN 0 ELSE d[Len(d)].n

\* the status record is readable and written at the claimed start time
StartTimeMatches ==
    os.stat.open /\ os.stat.read /\ OsStartTime(os.stat) = Claimed("start-time")

LookupFailed == os.fail \in {"creds", "uid", "euid", "gids", "gid"}

\* the reply (false, false, {})
RepliedDenied ==
    result.sent /\ ~result.is_authorized /\ ~result.is_challenge /\ result.details = {}

\* the reply (true, false, {})
RepliedAllowed ==
    result.sent /\ result.is_authorized /\ ~result.is_challenge /\ result.details = {}

(***************************************************************************)
(* Properties                                                              *)
(***************************************************************************)
\* C1: fail-closed.  A verdict is true only if the action id has a rule,
\* no lookup failed, the subject is of a supported kind, a process
\* subject's claimed start time matched, real uid = effective uid, and a
\* configured group of a rule of the action resolved to a gid among the
\* subject's supplementary gids.
C1_FailClosed ==
    (Answered /\ (result.allowed \/ result.is_authorized)) =>
        /\ HasRule(msg.action_id)
        /\ ~LookupFailed
        /\ IsProcess \/ IsBusPeer
        /\ IsProcess => StartTimeMatches
        /\ os.ruid = os.euid
        /\ \E i \in 1..Len(RulesFor(msg.action_id)) :
             ConfiguredGids(RulesFor(msg.action_id)[i], os.grdb)
                 \cap SupplementaryGids # {}

\* a request was answered with the verdict true
C1_Witness == Answered /\ RepliedAllowed

\* C3: an action id without a rule in the store is denied, whatever the
\* subject and its credentials are.
C3_UnknownActionDenied ==
    (Decided /\ ~HasRule(msg.action_id)) => (~result.allowed /\ ~result.is_authorized)

\* a peer that is in wheel asked for an action that has no rule, while the
\* store has rules for other actions
C3_Witness ==
    /\ Decided /\ ~HasRule(msg.action_id) /\ data.lines # <<>>
    /\ IsBusPeer /\ os = BestOs(NoStat)
    /\ RepliedDenied

\* C4: a process subject whose claimed start time differs from the one the
\* OS records, or whose status record cannot be read, is denied whatever
\* its groups are.
C4_StartTimeMismatchDenied ==
    (Decided /\ IsProcess /\ ~StartTimeMatches) => ~result.allowed

\* a process in wheel claimed another start time than the OS records and
\* was denied an action wheel is configured for
C4_Witness ==
    /\ Decided /\ IsProcess /\ HasRule(msg.action_id)
    /\ os.stat.read /\ OsStartTime(os.stat) # Claimed("start-time")
    /\ os.fail = "none" /\ os.ruid = os.euid /\ os.primary_gid = GID.users
    /\ GID.wheel \in SupplementaryGids
    /\ GID.wheel \in ConfiguredGids(RulesFor(msg.action_id)[1], os.grdb)
    /\ ~result.allowed

\* C5: a process or bus-peer subject whose real uid differs from its
\* effective uid is denied, also when a supplementary gid is the gid of a
\* configured group.
C5_UidMismatchDenied ==
    (Decided /\ (IsProcess \/ IsBusPeer) /\ os.ruid # os.euid) => ~result.allowed

\* a peer with euid # ruid that is in the configured group wheel was denied
C5_Witness ==
    /\ Decided /\ IsBusPeer /\ os.ruid # os.euid /\ os.fail = "none"
    /\ HasRule(msg.action_id)
    /\ GID.wheel \in SupplementaryGids /\ os.primary_gid = GID.users
    /\ GID.wheel \in ConfiguredGids(RulesFor(msg.action_id)[1], os.grdb)
    /\ ~result.allowed

\* the policy file defines action id a exactly once, with the groups gs
OnlyRule(a, gs) ==
    /\ Len(RulesFor(a)) = 1
    /\ RulesFor(a)[1].groups = gs

\* C2: with the policy reboot="adm,wheel", a process subject with
\* supplementary gids {wheel}, primary gid users, real uid = effective uid
\* and the start time the OS records is answered (true, false, {}).
C2_ProcessInWheelAllowed ==
    ( /\ Answered /\ IsProcess /\ msg.action_id = reboot
      /\ OnlyRule(reboot, <<adm, wheel>>)
      /\ os.fail = "none" /\ os.grdb = "full"
      /\ os.gids = <<GID.wheel>> /\ os.primary_gid = GID.users
      /\ os.ruid = os.euid
      /\ StartTimeMatches )
    => RepliedAllowed

\* C6: when the subject's primary gid is the gid of a configured group and
\* no supplementary gid is, the verdict is false and the reply is
\* (false, false, {}).
C6_PrimaryOnlyDenied ==
    ( /\ Decided /\ HasRule(msg.action_id)
      /\ \E i \in 1..Len(RulesFor(msg.action_id)) :
            os.primary_gid \in ConfiguredGids(RulesFor(msg.action_id)[i], os.grdb)
      /\ \A i \in 1..Len(RulesFor(msg.action_id)) :
            ConfiguredGids(RulesFor(msg.action_id)[i], os.grdb)
                \cap SupplementaryGids = {} )
    => /\ ~result.allowed
       /\ os.fail # "send" => RepliedDenied

\* a peer whose credentials resolved, with primary gid wheel and other
\* supplementary gids only, was denied an action configured for wheel
C6_Witness ==
    /\ Decided /\ IsBusPeer /\ result.resolved
    /\ OnlyRule(msg.action_id, <<adm, wheel>>)
    /\ os.primary_gid = GID.wheel /\ os.gids = <<GID.users>>
    /\ RepliedDenied

\* C7 as claimed: rule "adm,wheel", resolved credentials, primary gid
\* wheel; if wheel's gid is also a supplementary gid the verdict is true.
C7_PrimaryAlsoSupplementaryAllowed ==
    ( /\ Decided /\ result.resolved
      /\ OnlyRule(msg.action_id, <<adm, wheel>>)
      /\ os.primary_gid = GID.wheel
      /\ GID.wheel \in SupplementaryGids )
    => result.allowed

\* C7 as amended: rule "adm,wheel", resolved credentials, primary gid wheel
\* and wheel's gid also a supplementary gid: that entry is skipped because
\* it equals the primary gid, so the verdict is true exactly when adm
\* resolves to a gid that is among the supplementary gids.
C7_PrimarySkippedAmongSupplementary ==
    ( /\ Decided /\ result.resolved
      /\ OnlyRule(msg.action_id, <<adm, wheel>>)
      /\ os.primary_gid = GID.wheel
      /\ GID.wheel \in SupplementaryGids )
    => ( result.allowed <=>
            (getgrnam(os.grdb, adm).found /\ GID.adm \in SupplementaryGids) )

\* a peer with primary gid wheel and supplementary gids {users, wheel} was
\* denied an action configured for "adm,wheel"
C7_Witness ==
    /\ Decided /\ IsBusPeer /\ result.resolved
    /\ OnlyRule(msg.action_id, <<adm, wheel>>)
    /\ os.primary_gid = GID.wheel /\ os.gids = <<GID.users, GID.wheel>>
    /\ ~result.allowed

\* C8: when the policy defines an action id more than once, the verdict is
\* the one the group list of the last definition gives.
C8_LastDefinitionWins ==
    ( /\ Decided /\ result.resolved /\ os.fail = "none"
      /\ Len(RulesFor(msg.action_id)) > 1 )
    => ( result.allowed <=>
            MatchGroups(RulesFor(msg.action_id)[Len(RulesFor(msg.action_id))],
                        1, os, os.primary_gid) )

\* the grammar of a policy line: id="g1,...,gN" with N <= MAX_GROUPS
FirstIndex(line, from, c) ==
    LET S == { k \in from..Len(line) : line[k] = c }
    IN IF S = {} THEN 0 ELSE CHOOSE k \in S : \A j \in S : k <= j

WellFormed(line) ==
    LET eq == FirstIndex(line, 1, "=")
        close == FirstIndex(line, eq + 2, QUOTE)
    IN /\ eq # 0
       /\ eq + 1 <= Len(line) /\ line[eq + 1] = QUOTE
       /\ close # 0
       /\ Cardinality({ k \in (eq + 2)..(close - 1) : line[k] = "," }) + 1 <= MAX_GROUPS

\* the policy file has a line that is neither blank nor a comment and
\* violates the grammar
HasBadLine ==
    /\ policy_file.found /\ policy_file.readable
    /\ \E i \in 1..Len(policy_file.lines) :
         LET l == policy_file.lines[i] IN
         /\ l[1] # "#" /\ l[1] # NEWLINE
         /\ ~WellFormed(l)

\* C9: a policy file with a line that violates the grammar fails the whole
\* load: no store, exit status non-zero, and the daemon never reaches the
\* event loop, so no handler ever runs.
C9_BadLineAbortsStartup ==
    (pc # "start" /\ HasBadLine) =>
        /\ pc = "aborted"
        /\ data.isnull
        /\ exit_status # EXIT_SUCCESS
        /\ result = NoResult /\ msg = NoMsg

\* startup aborted on a file that has a valid rule next to the bad line
C9_Witness ==
    /\ pc = "aborted" /\ HasBadLine
    /\ \E i \in 1..Len(policy_file.lines) : policy_file.lines[i] \in GoodLines

\* the payload has a string-valued detail of the active kind that is longer
\* than 255 bytes
HasLongString ==
    \E i \in 1..Len(msg.details) :
        /\ msg.details[i].sig = "s" /\ msg.details[i].len > MAX_NAME_SIZE - 1
        /\ \/ IsSession /\ msg.details[i].key = "session-id"
           \/ IsBusPeer /\ msg.details[i].key = "name"

\* C10: decoding a subject with a string-valued detail longer than 255
\* bytes fails: the decoder never reports success for it.
C10_LongStringRejected ==
    (Answered /\ HasLongString) => ~result.decoded

\* the detail keys parse_subject recognises for a subject kind
RecognisedKeys(kind) ==
    IF kind = "unix-process" THEN {"pid", "start-time"}
    ELSE IF kind = "unix-session" THEN {"session-id"}
    ELSE IF kind = "system-bus-name" THEN {"name"}
    ELSE {}

\* the payload has a detail whose key is not recognised for its kind
HasUnrecognisedKey ==
    /\ IsProcess \/ IsBusPeer \/ IsSession
    /\ \E i \in 1..Len(msg.details) :
         msg.details[i].key \notin RecognisedKeys(msg.subject_kind)

\* the payload without the details of unrecognised key
WithoutUnrecognised ==
    [msg EXCEPT !.details =
        SelectSeq(msg.details,
                  LAMBDA e : e.key \in RecognisedKeys(msg.subject_kind))]

\* C11: decoding a subject that has a detail of unrecognised key succeeds
\* and gives the subject that the payload without that detail gives.
C11_UnrecognisedKeyIgnored ==
    ( /\ Answered /\ HasUnrecognisedKey
      /\ parse_subject(WithoutUnrecognised).r >= 0 )
    => /\ result.decoded
       /\ result.subject = parse_subject(WithoutUnrecognised).subject

\* the type each recognised key's value must have
ValueType(key) ==
    IF key = "pid" THEN "u" ELSE IF key = "start-time" THEN "t" ELSE "s"

\* the payload names a kind that is none of the three known ones
HasUnknownKind == ~(IsProcess \/ IsBusPeer \/ IsSession)

\* a detail of recognised key carries a value of the wrong type
HasWrongType ==
    \E i \in 1..Len(msg.details) :
        /\ msg.details[i].key \in RecognisedKeys(msg.subject_kind)
        /\ msg.details[i].sig # ValueType(msg.details[i].key)

\* C12: when decoding the subject fails (unknown kind, too-long string,
\* value of the wrong type, or any error of parse_subject) the call fails:
\* the handler returns an error, check_allowed is not called, no reply is
\* sent and no verdict exists.
C12_DecodeFailureFailsCall ==
    ( /\ Answered
      /\ \/ ~result.decoded
         \/ HasUnknownKind \/ HasLongString \/ HasWrongType )
    => /\ result.r < 0
       /\ ~result.evaluated
       /\ ~result.sent
       /\ ~result.allowed /\ ~result.is_authorized

\* a session subject with a session id of 256 bytes asked for an action
\* that has a rule, and the call failed without a reply
C12_Witness ==
    /\ Answered /\ IsSession /\ HasLongString /\ HasRule(msg.action_id)
    /\ os.fail = "none"
    /\ result.r < 0 /\ ~result.evaluated /\ ~result.sent

\* the action ids of the store, in store order
StoredIds == [i \in 1..Len(data.lines) |-> data.lines[i].id]

NoDuplicates(seq) ==
    \A i, j \in 1..Len(seq) : seq[i] = seq[j] => i = j

\* C13: in a loaded store no two rules have the same action id, and
\* EnumerateActions returns one descriptor per distinct action id, also
\* when the policy file defines an action id more than once.
C13_UniqueActionIds ==
    /\ (pc # "start" /\ ~data.isnull) => NoDuplicates(StoredIds)
    /\ (pc = "handled" /\ result.method = "EnumerateActions" /\ result.sent)
          => /\ NoDuplicates(result.actions)
             /\ { result.actions[i] : i \in 1..Len(result.actions) }
                  = { data.lines[i].id : i \in 1..Len(data.lines) }

\* the methods of the calls recorded so far
RecordedMethods == { history[k].msg.method : k \in 1..Len(history) }

\* C14: once loaded, the store is never changed: after any sequence of
\* CheckAuthorization, CancelCheckAuthorization and EnumerateActions calls
\* it holds the action ids and group lists that the load produced.
C14_StoreImmutable ==
    pc # "start" => data = load_file(policy_file)

\* a CancelCheckAuthorization call returned after a CheckAuthorization and
\* an EnumerateActions call, and the store still holds its two rules
C14_Witness ==
    /\ pc = "handled" /\ msg.method = "CancelCheckAuthorization"
    /\ RecordedMethods = {"CheckAuthorization", "EnumerateActions"}
    /\ Len(data.lines) = 2
    /\ data = load_file(policy_file)

\* C15: determinism.  With the store fixed, a CheckAuthorization payload
\* handled under the same answers of the OS gets the same result (return
\* value, verdict and reply) as every earlier call with that payload and
\* those answers, whatever was handled before or in between.
C15_Deterministic ==
    Answered =>
        \A k \in 1..Len(history) :
            (history[k].msg = msg /\ history[k].os = os)
                => history[k].result = result

\* a request was allowed, the same peer was then denied the same action
\* under other credentials, and the first request was allowed again
C15_Witness ==
    /\ Answered /\ RepliedAllowed
    /\ Len(history) = 2
    /\ history[1].msg = msg /\ history[1].os = os
    /\ history[2].msg = msg /\ history[2].os # os
    /\ history[2].result.sent /\ ~history[2].result.is_authorized

\* the lines of the policy file that are neither comments nor blank
RuleCandidates ==
    SelectSeq(policy_file.lines, LAMBDA l : l[1] # "#" /\ l[1] # NEWLINE)

\* the number of groups a line writes: the commas between the quotes, plus 1
GroupCount(line) ==
    LET eq == FirstIndex(line, 1, "=")
        close == FirstIndex(line, eq + 2, QUOTE)
    IN Cardinality({ k \in (eq + 2)..(close - 1) : line[k] = "," }) + 1

\* the line has id=" and a closing quote
Quoted(line) ==
    LET eq == FirstIndex(line, 1, "=")
    IN /\ eq # 0 /\ eq + 1 <= Len(line) /\ line[eq + 1] = QUOTE
       /\ FirstIndex(line, eq + 2, QUOTE) # 0

\* C16: every rule of a loaded store has at least 1 and at most 10 group
\* names; a line that writes exactly 10 groups is accepted with 10 names,
\* and a line that starts an 11th group fails the load.
C16_GroupCountBounded ==
    (pc # "start") =>
        /\ ~data.isnull =>
              /\ Len(data.lines) = Len(RuleCandidates)
              /\ \A i \in 1..Len(data.lines) :
                    /\ data.lines[i].n_groups >= 1
                    /\ data.lines[i].n_groups <= MAX_GROUPS
                    /\ Len(data.lines[i].groups) = data.lines[i].n_groups
                    /\ data.lines[i].n_groups = GroupCount(RuleCandidates[i])
        /\ (\A i \in 1..Len(RuleCandidates) :
                Quoted(RuleCandidates[i]) /\ GroupCount(RuleCandidates[i]) <= MAX_GROUPS)
              => ~data.isnull
        /\ (\E i \in 1..Len(RuleCandidates) :
                Quoted(RuleCandidates[i]) /\ GroupCount(RuleCandidates[i]) > MAX_GROUPS)
              => data.isnull /\ pc = "aborted"

\* a file with a rule of exactly 10 groups and a rule of one group loaded
C16_Witness ==
    /\ pc = "loop" /\ Len(data.lines) = 2
    /\ data.lines[1].n_groups = MAX_GROUPS
    /\ GroupCount(policy_file.lines[1]) = MAX_GROUPS
    /\ data.lines[2].n_groups = 1

\* the rule a rule line was rendered from
RuleOf(line) == CHOOSE rule \in ParseRules : Render(rule) = line

\* every line of the policy file is a rendered rule, a comment or a blank
\* line, and no two rule lines have the same id
WellFormedFile ==
    /\ \A i \in 1..Len(policy_file.lines) :
          policy_file.lines[i] \in RuleLines \cup SkippedLines
    /\ \A i, j \in 1..Len(RuleCandidates) :
          i # j => RuleOf(RuleCandidates[i]).id # RuleOf(RuleCandidates[j]).id

\* C17: round trip of the policy parser.  For a file of well-formed lines
\* id="g1,...,gN" with distinct ids, comments and blank lines, the store
\* holds exactly the pairs id -> <<g1,...,gN>> that were written, groups in
\* the order written; comments and blank lines contribute no rule.
C17_ParseRoundTrip ==
    (pc # "start" /\ WellFormedFile) =>
        /\ ~data.isnull
        /\ Len(data.lines) =
              Cardinality({ i \in 1..Len(policy_file.lines) :
                              policy_file.lines[i] \in RuleLines })
        /\ \A i \in 1..Len(data.lines) :
              /\ data.lines[i].id = RuleOf(RuleCandidates[i]).id
              /\ data.lines[i].groups = RuleOf(RuleCandidates[i]).groups

\* a file of a rule for a with groups yz, x, a comment and a rule for b
\* loaded as two rules, the groups of a in the order yz, x
C17_Witness ==
    /\ pc = "loop" /\ WellFormedFile
    /\ Len(policy_file.lines) = 3 /\ policy_file.lines[2][1] = "#"
    /\ Len(data.lines) = 2
    /\ data.lines[1].id = <<"a">>
    /\ data.lines[1].groups = << <<"y", "z">>, <<"x">> >>
    /\ data.lines[2].id = <<"b">>

Whitespace == {" ", "\t"}

\* the line has id=" and a closing quote, and a space or a tab in the id
\* or between the quotes
WhitespaceInRule(line) ==
    /\ Quoted(line)
    /\ \E k \in 1..Len(line) :
          /\ line[k] \in Whitespace
          /\ \/ k < FirstIndex(line, 1, "=")
             \/ /\ k > FirstIndex(line, 1, "=") + 1
                /\ k < FirstIndex(line, FirstIndex(line, 1, "=") + 2, QUOTE)

HasWhitespace(str) == \E k \in 1..Len(str) : str[k] \in Whitespace

\* C18: a policy line with a space or a tab in the action id or in the
\* quoted group list fails the load, and no stored id or group name ever
\* contains a space or a tab.
C18_WhitespaceRejected ==
    /\ (pc # "start" /\ \E i \in 1..Len(RuleCandidates) :
                             WhitespaceInRule(RuleCandidates[i]))
          => data.isnull /\ pc = "aborted"
    /\ \A i \in 1..Len(data.lines) :
          /\ ~HasWhitespace(data.lines[i].id)
          /\ \A g \in 1..Len(data.lines[i].groups) :
                ~HasWhitespace(data.lines[i].groups[g])

\* C19: for a session subject the credentials are never resolved and the
\* verdict is false for every action id, also for one that has a rule
\* whose group the answers of the OS would match.
C19_SessionDenied ==
    (Decided /\ IsSession) =>
        /\ ~result.resolved
        /\ ~result.allowed /\ ~result.is_authorized
        /\ os.fail # "send" => RepliedDenied

\* a session subject asked for an action configured for wheel, under
\* answers of the OS that put wheel among the supplementary gids, and was
\* denied
C19_Witness ==
    /\ Decided /\ IsSession /\ result.found
    /\ os = BestOs(NoStat)
    /\ GID.wheel \in ConfiguredGids(RulesFor(msg.action_id)[1], os.grdb)
    /\ RepliedDenied

\* the reply of a method that returns nothing: sent, with an empty body
RepliedEmpty ==
    /\ result.sent /\ result.r >= 0
    /\ result = [NoResult EXCEPT !.method = result.method,
                                 !.r = result.r, !.sent = TRUE]

\* C20: CancelCheckAuthorization acknowledges with an empty reply for
\* every cancellation id (unless the bus library fails to send it) and has
\* no effect: the store stays as loaded, and a CheckAuthorization call
\* gets the result that the same call got before the cancellation.
C20_CancelHasNoEffect ==
    /\ (pc = "handled" /\ msg.method = "CancelCheckAuthorization") =>
          /\ os.fail # "send" => RepliedEmpty
          /\ data = load_file(policy_file)
    /\ Answered =>
          \A i, j \in 1..Len(history) :
              ( /\ i < j
                /\ history[j].msg.method = "CancelCheckAuthorization"
                /\ history[i].msg = msg /\ history[i].os = os )
              => history[i].result = result

\* a request was allowed, a cancellation with id c1 was acknowledged, and
\* the same request was allowed again
C20_Witness ==
    /\ Answered /\ RepliedAllowed
    /\ Len(history) = 2
    /\ history[1].msg = msg /\ history[1].os = os
    /\ history[2].msg.method = "CancelCheckAuthorization"
    /\ history[2].msg.cancellation_id = "c1"
    /\ history[2].result.sent /\ history[2].result.r >= 0

\* the only rule of the requested action
TheRule == RulesFor(msg.action_id)[1]

\* group k of the rule does not resolve and a later group resolves to gid
UnresolvedBefore(gid) ==
    \E k, j \in 1..TheRule.n_groups :
        /\ k < j
        /\ ~getgrnam(os.grdb, TheRule.groups[k]).found
        /\ getgrnam(os.grdb, TheRule.groups[j]).found
        /\ getgrnam(os.grdb, TheRule.groups[j]).gr_gid = gid

\* C21 as claimed: a configured group that does not resolve is skipped, so
\* a later configured group that resolves to one of the supplementary gids
\* gives the verdict true; when no configured group resolves to a
\* supplementary gid the verdict is false.
C21_UnresolvedGroupSkipped ==
    (Decided /\ result.resolved /\ Len(RulesFor(msg.action_id)) = 1) =>
        /\ (\E gid \in SupplementaryGids : UnresolvedBefore(gid)) => result.allowed
        /\ ConfiguredGids(TheRule, os.grdb) \cap SupplementaryGids = {}
              => ~result.allowed

\* C21 as amended: the same, for supplementary gids other than the primary
\* gid (an entry equal to the primary gid never matches): the verdict is
\* true exactly when some configured group resolves to such a gid.
C21_UnresolvedGroupSkippedPrimaryExcluded ==
    (Decided /\ result.resolved /\ Len(RulesFor(msg.action_id)) = 1) =>
        /\ (\E gid \in SupplementaryGids \ {os.primary_gid} : UnresolvedBefore(gid))
              => result.allowed
        /\ result.allowed <=>
              ConfiguredGids(TheRule, os.grdb)
                  \cap (SupplementaryGids \ {os.primary_gid}) # {}

\* a peer in wheel with primary gid users was allowed an action whose
\* rule names a group the database lacks before wheel
C21_Witness ==
    /\ Decided /\ IsBusPeer /\ result.resolved
    /\ Len(RulesFor(msg.action_id)) = 1
    /\ ~getgrnam(os.grdb, TheRule.groups[1]).found
    /\ UnresolvedBefore(GID.wheel)
    /\ GID.wheel \in SupplementaryGids /\ os.primary_gid = GID.users
    /\ RepliedAllowed

\* the credential field a getter reads
FieldOf(op) ==
    IF op = "get_uid" THEN "uid"
    ELSE IF op = "get_euid" THEN "euid"
    ELSE IF op = "get_supplementary_gids" THEN "supplementary_gids"
    ELSE "gid"

\* the fields check_allowed read from the credentials object
FieldsRead ==
    { FieldOf(result.creds_ops[k]) :
        k \in { n \in 1..Len(result.creds_ops) :
                  result.creds_ops[n] \in {"get_uid", "get_euid",
                                           "get_supplementary_gids", "get_gid"} } }

\* C22: for a bus-peer subject the credentials are asked for with the
\* fields real uid, effective uid, primary gid and supplementary gids, as
\* for a process subject, so every field read from them afterwards was
\* asked for.
C22_PeerMaskCoversReads ==
    (Decided /\ IsBusPeer /\ result.found) =>
        /\ {"uid", "euid", "gid", "supplementary_gids"} \subseteq result.mask
        /\ FieldsRead \subseteq result.mask

\* the positions of op in the calls on the credentials object
OpsAt(op) == { k \in 1..Len(result.creds_ops) : result.creds_ops[k] = op }

\* C23: on every path through check_allowed a credentials object that was
\* obtained is released exactly once, as the last call on it, and nothing
\* is released when none was obtained.
C23_CredsReleasedOnce ==
    Decided =>
        /\ Cardinality(OpsAt("new")) <= 1
        /\ Cardinality(OpsAt("unref")) = Cardinality(OpsAt("new"))
        /\ OpsAt("new") # {} =>
              /\ result.creds_ops[1] = "new"
              /\ result.creds_ops[Len(result.creds_ops)] = "unref"

\* a peer was allowed: the credentials were obtained, all four fields and
\* the gids were read, and the object was released once at the end
C23_Witness ==
    /\ Decided /\ IsBusPeer /\ RepliedAllowed
    /\ result.creds_ops = <<"new", "get_uid", "get_euid", "get_supplementary_gids",
                            "get_gid", "read_gids", "unref">>

\* C24: every status record verify_start_time opens is closed before it
\* returns, so a handled CheckAuthorization call leaves no status record
\* open.
C24_StatusRecordClosed ==
    Answered => ~result.f_open

====
